---- MODULE Spec2Model ----
(***************************************************************************)
(* Single-producer / single-consumer byte ring buffer (queue.go).          *)
(* One producer goroutine calls Push, one consumer goroutine calls Pop.    *)
(* Every access to a shared location (a cursor, the region) is one step.   *)
(* Cursors are uint64 in the code; here they stay far below 2^64.          *)
(***************************************************************************)
EXTENDS Integers, Sequences, FiniteSets, TLC

\* ---- bounds of the model ----
MaxCap == 10        \* queue capacities 0..MaxCap
MaxLen == 2         \* payload lengths 0..MaxLen
MaxMsgs == 3        \* messages accepted in one run
MaxStart == 11      \* start offsets 0..MaxStart of the random-position test
MaxFullCap == 12    \* capacities 0..MaxFullCap of the IsFull table

\* ---- program constants ----
ElementMetaSize == 4
PadBytes == 3
TestCap == 64

VARIABLES
    cap,            \* Queue.cap
    readPtr,        \* Queue.readPtr
    writePtr,       \* Queue.writePtr
    mem,            \* Queue.mem with its 3 spare bytes: 0 .. cap+2
    ppc,            \* producer: position inside Push
    buf,            \* producer: Push's argument
    pWritePtr,      \* producer: local writePtr of Push
    writePtrNext,   \* producer: local writePtrNext of Push
    pres,           \* producer: result of the last Push
    pentry,         \* producer: <<writePtr, mem, readPtr>> when the last Push was called
    pushSteps,      \* producer: steps taken by the current Push
    retried,        \* producer: this Push re-submits the payload that was just refused
    cpc,            \* consumer: position inside Pop
    dst,            \* consumer: Pop's argument, then its result
    dst0,           \* consumer: Pop's argument as passed
    readingPtr,     \* consumer: local readingPtr of Pop
    meta,           \* consumer: local meta of Pop
    cres,           \* consumer: result of the last Pop
    popSteps,       \* consumer: steps taken by the current Pop
    pushed,         \* the messages accepted by Push, in order
    popped,         \* the results of the successful Pops, in order
    fullArg,        \* argument of the last direct IsFull call (-1: none)
    fullRes,        \* result of the last direct IsFull call
    wide            \* the Push made on a queue of 2^31 bytes and more (<<>>: none)

vars == <<cap, readPtr, writePtr, mem, ppc, buf, pWritePtr, writePtrNext, pres,
          pentry, pushSteps, retried, cpc, dst, dst0, readingPtr, meta, cres, popSteps,
          pushed, popped, fullArg, fullRes, wide>>

qvars == <<cap, readPtr, writePtr, mem>>
pvars == <<ppc, buf, pWritePtr, writePtrNext, pres, pentry, pushSteps, retried>>
cvars == <<cpc, dst, dst0, readingPtr, meta, cres, popSteps>>
fvars == <<fullArg, fullRes, wide>>

\* ---- inputs ----
\* payloads of every length 0..MaxLen, two contents per length, bytes all different
Payloads == {[i \in 1..n |-> b + i] : n \in 0..MaxLen, b \in {0, 100}}
\* output containers handed to Pop: empty (or nil), and one holding a byte already
Dsts == {<<>>, <<255>>}

\* ---- helpers ----

\* len(q.mem): make([]byte, cap, cap+3) has length cap
MemLen == cap
\* cap(q.mem): the allocation, cap+3 bytes
MemCap == cap + PadBytes

\* Queue.pos; the caller guards cap # 0 (a division by zero panics)
pos(ptr) == ptr % cap

\* the 4 bytes of an int32, two's complement, lowest byte first
MetaBytes(m) ==
    IF m >= 0
    THEN [i \in 0..3 |-> (m \div (256 ^ i)) % 256]
    ELSE [i \in 0..3 |-> 255 - (((-m - 1) \div (256 ^ i)) % 256)]

\* the int32 held by 4 bytes
MetaValue(b) ==
    IF b[3] >= 128
    THEN -((255 - b[0]) + (255 - b[1]) * 256 + (255 - b[2]) * 65536
           + (255 - b[3]) * 16777216) - 1
    ELSE b[0] + b[1] * 256 + b[2] * 65536 + b[3] * 16777216

\* Queue.writeMeta: the region after the 4-byte store at p (p < len(mem) checked by the caller)
writeMeta(m, p, v) ==
    [i \in DOMAIN m |-> IF i >= p /\ i < p + ElementMetaSize THEN MetaBytes(v)[i - p] ELSE m[i]]

\* Queue.readMeta: the 4-byte load at p
readMeta(m, p) == MetaValue([i \in 0..3 |-> m[p + i]])

\* faulty variant: the logical check counts the payload without its header
IsFullLogicalNoMeta(w, r, n) ==
    IF w + n < r THEN TRUE
    ELSE (w + n) - r > MemLen

\* the first check of IsFull (line 63); uint64 subtraction wraps to a huge value
IsFullLogical(w, r, n) ==
    IF w + ElementMetaSize + n < r THEN TRUE
    ELSE (w + ElementMetaSize + n) - r > MemLen

\* faulty variant: a frame that does not fit the tail is refused, the head is never tried
IsFullPlacementTailOnly(w, r, n) ==
    LET cost == n + ElementMetaSize
        phyReadPos == pos(r)
        phyWritePos == pos(w)
    IN  IF phyReadPos <= phyWritePos
        THEN phyWritePos + cost > MemLen
        ELSE phyWritePos + cost > phyReadPos

\* faulty variant: a frame that ends exactly at the reader's position is refused
IsFullPlacementOffByOne(w, r, n) ==
    LET cost == n + ElementMetaSize
        phyReadPos == pos(r)
        phyWritePos == pos(w)
    IN  IF phyReadPos <= phyWritePos
        THEN IF phyWritePos + cost <= MemLen THEN FALSE
             ELSE IF cost <= phyReadPos THEN FALSE
             ELSE TRUE
        ELSE phyWritePos + cost >= phyReadPos

\* faulty variant: the wrap to position 0 is admitted without looking at the reader
IsFullPlacementNoHead(w, r, n) ==
    LET cost == n + ElementMetaSize
        phyReadPos == pos(r)
        phyWritePos == pos(w)
    IN  IF phyReadPos <= phyWritePos
        THEN FALSE
        ELSE phyWritePos + cost > phyReadPos

\* the placement check of IsFull (lines 67-84)
IsFullPlacement(w, r, n) ==
    LET cost == n + ElementMetaSize
        phyReadPos == pos(r)
        phyWritePos == pos(w)
    IN  IF phyReadPos <= phyWritePos
        THEN IF phyWritePos + cost <= MemLen THEN FALSE
             ELSE IF cost <= phyReadPos THEN FALSE
             ELSE TRUE
        ELSE phyWritePos + cost > phyReadPos

\* Queue.IsFull called with both reads of readPtr seeing the same value
IsFull(w, r, n) ==
    IF IsFullLogical(w, r, n) THEN TRUE ELSE IsFullPlacement(w, r, n)

\* Queue.IsEmpty
IsEmpty == readPtr = writePtr

NoPanic == pres # "panic" /\ cres # "panic"

\* ---- construction ----

\* NewQueue(c)
NewQueue(c) ==
    /\ cap = c
    /\ readPtr = 0
    /\ writePtr = 0
    /\ mem = [i \in 0..(c + PadBytes - 1) |-> 0]

Idle ==
    /\ ppc = "idle" /\ buf = <<>> /\ pWritePtr = 0 /\ writePtrNext = 0
    /\ pres = "none" /\ pentry = <<writePtr, mem, readPtr>> /\ pushSteps = 0 /\ retried = FALSE
    /\ cpc = "idle" /\ dst = <<>> /\ dst0 = <<>> /\ readingPtr = 0 /\ meta = 0
    /\ cres = "none" /\ popSteps = 0
    /\ pushed = <<>> /\ popped = <<>>
    /\ fullArg = -1 /\ fullRes = "none"
    /\ wide = <<>>

Init ==
    /\ \E c \in 0..MaxCap : NewQueue(c)
    /\ Idle

\* ---- Push ----

\* Push line 104 and IsFull line 63: the first read of readPtr
PushIsFull1(b) ==
    /\ NoPanic
    /\ ppc = "idle"
    /\ Len(pushed) < MaxMsgs
    /\ buf' = b
    /\ pentry' = <<writePtr, mem, readPtr>>
    /\ pushSteps' = 1
    /\ retried' = (pres = "ErrFull" /\ b = buf)
    /\ IF IsFullLogical(writePtr, readPtr, Len(b))
       THEN /\ ppc' = "idle"
            /\ pres' = "ErrFull"
       ELSE /\ ppc' = "isfull2"
            /\ pres' = "running"
    /\ UNCHANGED <<qvars, pWritePtr, writePtrNext, cvars, pushed, popped, fvars>>

\* faulty variant: a full queue is waited for: the placement check is repeated until the
\* reader has made room
PushIsFull2Spin ==
    /\ NoPanic
    /\ ppc = "isfull2"
    /\ cap # 0
    /\ pushSteps' = pushSteps + 1
    /\ IF IsFullPlacement(writePtr, readPtr, Len(buf))
       THEN /\ ppc' = "isfull2"
            /\ pres' = "running"
            /\ UNCHANGED <<pWritePtr, writePtrNext>>
       ELSE /\ pWritePtr' = writePtr
            /\ writePtrNext' = writePtr + ElementMetaSize + Len(buf)
            /\ ppc' = IF cap - pos(writePtr) < Len(buf) + ElementMetaSize
                      THEN "skip" ELSE "meta"
            /\ pres' = "running"
    /\ UNCHANGED <<qvars, buf, pentry, retried, cvars, pushed, popped, fvars>>

\* faulty variant: the skip header is stored before the head space is checked
PushIsFull2EagerSkip ==
    /\ NoPanic
    /\ ppc = "isfull2"
    /\ cap # 0
    /\ pushSteps' = pushSteps + 1
    /\ mem' = IF cap - pos(writePtr) < Len(buf) + ElementMetaSize
              THEN writeMeta(mem, pos(writePtr), -(cap - pos(writePtr)))
              ELSE mem
    /\ IF IsFullPlacement(writePtr, readPtr, Len(buf))
       THEN /\ ppc' = "idle"
            /\ pres' = "ErrFull"
            /\ UNCHANGED <<pWritePtr, writePtrNext>>
       ELSE /\ pWritePtr' = writePtr
            /\ writePtrNext' = writePtr + ElementMetaSize + Len(buf)
            /\ ppc' = IF cap - pos(writePtr) < Len(buf) + ElementMetaSize
                      THEN "skip" ELSE "meta"
            /\ pres' = "running"
    /\ UNCHANGED <<cap, readPtr, writePtr, buf, pentry, retried, cvars, pushed, popped, fvars>>

\* faulty variant: a skip header is placed only when the 4-byte header does not fit the
\* tail, so a payload may run across the end of the region
PushIsFull2SkipHeaderOnly ==
    /\ NoPanic
    /\ ppc = "isfull2"
    /\ cap # 0
    /\ pushSteps' = pushSteps + 1
    /\ IF IsFullPlacement(writePtr, readPtr, Len(buf))
       THEN /\ ppc' = "idle"
            /\ pres' = "ErrFull"
            /\ UNCHANGED <<pWritePtr, writePtrNext>>
       ELSE /\ pWritePtr' = writePtr
            /\ writePtrNext' = writePtr + ElementMetaSize + Len(buf)
            /\ ppc' = IF cap - pos(writePtr) < ElementMetaSize THEN "skip" ELSE "meta"
            /\ pres' = "running"
    /\ UNCHANGED <<qvars, buf, pentry, retried, cvars, pushed, popped, fvars>>

\* IsFull lines 67-84: the second read of readPtr; then Push lines 108-112
PushIsFull2 ==
    /\ NoPanic
    /\ ppc = "isfull2"
    /\ pushSteps' = pushSteps + 1
    /\ IF cap = 0
       THEN /\ ppc' = "idle"
            /\ pres' = "panic"
            /\ UNCHANGED <<pWritePtr, writePtrNext>>
       ELSE IF IsFullPlacement(writePtr, readPtr, Len(buf))
       THEN /\ ppc' = "idle"
            /\ pres' = "ErrFull"
            /\ UNCHANGED <<pWritePtr, writePtrNext>>
       ELSE /\ pWritePtr' = writePtr
            /\ writePtrNext' = writePtr + ElementMetaSize + Len(buf)
            /\ ppc' = IF cap - pos(writePtr) < Len(buf) + ElementMetaSize
                      THEN "skip" ELSE "meta"
            /\ pres' = "running"
    /\ UNCHANGED <<qvars, buf, pentry, retried, cvars, pushed, popped, fvars>>

\* faulty variant: writePtrNext is not recomputed after the skip (line 121 left out)
PushSkipStaleNext ==
    /\ NoPanic
    /\ ppc = "skip"
    /\ pushSteps' = pushSteps + 1
    /\ mem' = writeMeta(mem, pos(pWritePtr), -(cap - pos(pWritePtr)))
    /\ pWritePtr' = pWritePtr + (cap - pos(pWritePtr))
    /\ ppc' = "meta"
    /\ pres' = "running"
    /\ UNCHANGED <<cap, readPtr, writePtr, buf, writePtrNext, pentry, retried, cvars,
                   pushed, popped, fvars>>

\* faulty variant: the skip header is published on its own, before the frame behind it
PushSkipPublish ==
    /\ NoPanic
    /\ ppc = "skip"
    /\ pushSteps' = pushSteps + 1
    /\ mem' = writeMeta(mem, pos(pWritePtr), -(cap - pos(pWritePtr)))
    /\ pWritePtr' = pWritePtr + (cap - pos(pWritePtr))
    /\ writePtrNext' = pWritePtr + (cap - pos(pWritePtr)) + ElementMetaSize + Len(buf)
    /\ writePtr' = pWritePtr + (cap - pos(pWritePtr))
    /\ ppc' = "meta"
    /\ pres' = "running"
    /\ UNCHANGED <<cap, readPtr, buf, pentry, retried, cvars, pushed, popped, fvars>>

\* Push lines 113-121: the skip header
PushSkip ==
    /\ NoPanic
    /\ ppc = "skip"
    /\ pushSteps' = pushSteps + 1
    /\ LET skip == cap - pos(pWritePtr)
       IN  IF pos(pWritePtr) >= MemLen
           THEN /\ ppc' = "idle"
                /\ pres' = "panic"
                /\ UNCHANGED <<mem, pWritePtr, writePtrNext>>
           ELSE /\ mem' = writeMeta(mem, pos(pWritePtr), -skip)
                /\ pWritePtr' = pWritePtr + skip
                /\ writePtrNext' = pWritePtr + skip + ElementMetaSize + Len(buf)
                /\ ppc' = "meta"
                /\ pres' = "running"
    /\ UNCHANGED <<cap, readPtr, writePtr, buf, pentry, retried, cvars, pushed, popped, fvars>>

\* faulty variant: the cursor is published with the header, before the payload is copied
PushMetaPublishEarly ==
    /\ NoPanic
    /\ ppc = "meta"
    /\ pushSteps' = pushSteps + 1
    /\ mem' = writeMeta(mem, pos(pWritePtr), Len(buf))
    /\ writePtr' = writePtrNext
    /\ ppc' = "copy"
    /\ pres' = "running"
    /\ UNCHANGED <<cap, readPtr, buf, pWritePtr, writePtrNext, pentry, retried,
                   cvars, pushed, popped, fvars>>

\* Push line 125: the header of the message
PushMeta ==
    /\ NoPanic
    /\ ppc = "meta"
    /\ pushSteps' = pushSteps + 1
    /\ IF pos(pWritePtr) >= MemLen
       THEN /\ ppc' = "idle"
            /\ pres' = "panic"
            /\ UNCHANGED mem
       ELSE /\ mem' = writeMeta(mem, pos(pWritePtr), Len(buf))
            /\ ppc' = "copy"
            /\ pres' = "running"
    /\ UNCHANGED <<cap, readPtr, writePtr, buf, pWritePtr, writePtrNext, pentry, retried,
                   cvars, pushed, popped, fvars>>

\* Push line 127: copy(q.mem[a:b], buf)
PushCopy ==
    /\ NoPanic
    /\ ppc = "copy"
    /\ pushSteps' = pushSteps + 1
    /\ LET a == pos(pWritePtr) + ElementMetaSize
           b == pos(pWritePtr) + ElementMetaSize + Len(buf)
       IN  IF b > MemCap
           THEN /\ ppc' = "idle"
                /\ pres' = "panic"
                /\ UNCHANGED mem
           ELSE /\ mem' = [i \in DOMAIN mem |->
                             IF i >= a /\ i < b THEN buf[i - a + 1] ELSE mem[i]]
                /\ ppc' = "store"
                /\ pres' = "running"
    /\ UNCHANGED <<cap, readPtr, writePtr, buf, pWritePtr, writePtrNext, pentry, retried,
                   cvars, pushed, popped, fvars>>

\* faulty variant: Push returns without storing writePtr: the frame is never published
PushStoreNoPublish ==
    /\ NoPanic
    /\ ppc = "store"
    /\ pushSteps' = pushSteps + 1
    /\ pushed' = Append(pushed, [buf |-> buf, at |-> pentry[1], next |-> writePtrNext])
    /\ ppc' = "idle"
    /\ pres' = "ok"
    /\ pWritePtr' = 0
    /\ writePtrNext' = 0
    /\ UNCHANGED <<qvars, buf, pentry, retried, cvars, popped, fvars>>

\* faulty variant: the cursor is stored as a physical position, reduced modulo the capacity
PushStoreModCap ==
    /\ NoPanic
    /\ ppc = "store"
    /\ pushSteps' = pushSteps + 1
    /\ writePtr' = writePtrNext % cap
    /\ pushed' = Append(pushed, [buf |-> buf, at |-> pentry[1], next |-> writePtrNext])
    /\ ppc' = "idle"
    /\ pres' = "ok"
    /\ pWritePtr' = 0
    /\ writePtrNext' = 0
    /\ UNCHANGED <<cap, readPtr, mem, buf, pentry, retried, cvars, popped, fvars>>

\* Push line 131: atomic.StoreUint64(&q.writePtr, writePtrNext)
PushStore ==
    /\ NoPanic
    /\ ppc = "store"
    /\ pushSteps' = pushSteps + 1
    /\ writePtr' = writePtrNext
    /\ pushed' = Append(pushed, [buf |-> buf, at |-> pentry[1], next |-> writePtrNext])
    /\ ppc' = "idle"
    /\ pres' = "ok"
    /\ pWritePtr' = 0
    /\ writePtrNext' = 0
    /\ UNCHANGED <<cap, readPtr, mem, buf, pentry, retried, cvars, popped, fvars>>

\* ---- Pop ----

\* Pop lines 137-141: IsEmpty reads both cursors
PopIsEmpty(d) ==
    /\ NoPanic
    /\ cpc = "idle"
    /\ dst0' = d
    /\ popSteps' = 1
    /\ IF IsEmpty
       THEN /\ cpc' = "idle"
            /\ cres' = "ErrEmpty"
            /\ dst' = <<>>
            /\ UNCHANGED readingPtr
       ELSE /\ cpc' = "meta"
            /\ cres' = "running"
            /\ dst' = d
            /\ readingPtr' = readPtr
    /\ UNCHANGED <<qvars, pvars, meta, pushed, popped, fvars>>

\* faulty variant: readPtr is stored as soon as the header is read, before the payload
\* is copied out
PopReadMetaReleaseEarly ==
    /\ NoPanic
    /\ cpc = "meta"
    /\ popSteps' = popSteps + 1
    /\ cap # 0
    /\ LET m == readMeta(mem, pos(readingPtr))
       IN  /\ meta' = m
           /\ cres' = "running"
           /\ IF m < 0
              THEN /\ readingPtr' = readingPtr + (-m)
                   /\ cpc' = "meta2"
                   /\ UNCHANGED readPtr
              ELSE /\ readingPtr' = readingPtr + ElementMetaSize
                   /\ cpc' = "copy"
                   /\ readPtr' = readingPtr + ElementMetaSize + m
    /\ UNCHANGED <<cap, writePtr, mem, pvars, dst, dst0, pushed, popped, fvars>>

\* Pop lines 144-150 and 160-161: the header at readPtr
PopReadMeta ==
    /\ NoPanic
    /\ cpc = "meta"
    /\ popSteps' = popSteps + 1
    /\ IF cap = 0 \/ pos(readingPtr) >= MemLen
       THEN /\ cpc' = "idle"
            /\ cres' = "panic"
            /\ UNCHANGED <<meta, readingPtr>>
       ELSE LET m == readMeta(mem, pos(readingPtr))
            IN  /\ meta' = m
                /\ cres' = "running"
                /\ IF m < 0
                   THEN /\ readingPtr' = readingPtr + (-m)
                        /\ cpc' = "meta2"
                   ELSE /\ readingPtr' = readingPtr + ElementMetaSize
                        /\ cpc' = "copy"
    /\ UNCHANGED <<qvars, pvars, dst, dst0, pushed, popped, fvars>>

\* Pop lines 155-161: the header after a skip
PopReadMeta2 ==
    /\ NoPanic
    /\ cpc = "meta2"
    /\ popSteps' = popSteps + 1
    /\ IF pos(readingPtr) >= MemLen
       THEN /\ cpc' = "idle"
            /\ cres' = "panic"
            /\ UNCHANGED <<meta, readingPtr>>
       ELSE LET m == readMeta(mem, pos(readingPtr))
            IN  /\ meta' = m
                /\ IF m < 0
                   THEN /\ cpc' = "idle"
                        /\ cres' = "panic"
                        /\ UNCHANGED readingPtr
                   ELSE /\ readingPtr' = readingPtr + ElementMetaSize
                        /\ cpc' = "copy"
                        /\ cres' = "running"
    /\ UNCHANGED <<qvars, pvars, dst, dst0, pushed, popped, fvars>>

\* faulty variant: the payload replaces the contents of dst instead of following them
PopCopyOverwrite ==
    /\ NoPanic
    /\ cpc = "copy"
    /\ popSteps' = popSteps + 1
    /\ dst' = [i \in 1..meta |-> mem[pos(readingPtr) + i - 1]]
    /\ cpc' = "store"
    /\ cres' = "running"
    /\ UNCHANGED <<qvars, pvars, dst0, readingPtr, meta, pushed, popped, fvars>>

\* Pop line 164: dst = append(dst, q.mem[a:b]...)
PopCopy ==
    /\ NoPanic
    /\ cpc = "copy"
    /\ popSteps' = popSteps + 1
    /\ LET a == pos(readingPtr)
           b == pos(readingPtr) + meta
       IN  IF b > MemCap
           THEN /\ cpc' = "idle"
                /\ cres' = "panic"
                /\ UNCHANGED dst
           ELSE /\ dst' = dst \o [i \in 1..(b - a) |-> mem[a + i - 1]]
                /\ cpc' = "store"
                /\ cres' = "running"
    /\ UNCHANGED <<qvars, pvars, dst0, readingPtr, meta, pushed, popped, fvars>>

\* faulty variant: the released range stops at the header, the payload length is left out
PopStoreNoPayload ==
    /\ NoPanic
    /\ cpc = "store"
    /\ popSteps' = popSteps + 1
    /\ readPtr' = readingPtr
    /\ popped' = Append(popped, [buf |-> SubSeq(dst, Len(dst0) + 1, Len(dst)),
                                 next |-> readingPtr])
    /\ cpc' = "idle"
    /\ cres' = "ok"
    /\ readingPtr' = 0
    /\ meta' = 0
    /\ UNCHANGED <<cap, writePtr, mem, pvars, dst, dst0, pushed, fvars>>

\* Pop lines 167-171: atomic.StoreUint64(&q.readPtr, readPtrNext)
PopStore ==
    /\ NoPanic
    /\ cpc = "store"
    /\ popSteps' = popSteps + 1
    /\ readPtr' = readingPtr + meta
    /\ popped' = Append(popped, [buf |-> SubSeq(dst, Len(dst0) + 1, Len(dst)),
                                 next |-> readingPtr + meta])
    /\ cpc' = "idle"
    /\ cres' = "ok"
    /\ readingPtr' = 0
    /\ meta' = 0
    /\ UNCHANGED <<cap, writePtr, mem, pvars, dst, dst0, pushed, fvars>>

\* ---- the two goroutines ----

Push == \/ \E b \in Payloads : PushIsFull1(b)
        \/ PushIsFull2
        \/ PushSkip
        \/ PushMeta
        \/ PushCopy
        \/ PushStore

Pop == \/ \E d \in Dsts : PopIsEmpty(d)
       \/ PopReadMeta
       \/ PopReadMeta2
       \/ PopCopy
       \/ PopStore

Next == Push \/ Pop

Spec == Init /\ [][Next]_vars

\* ---- the producer loop of the contention test: a refused Push is retried ----

\* for q.Push(msg) == ErrFull { } : the same msg again after ErrFull, the next msg after success
PushRetry ==
    \/ \E b \in Payloads : pres # "ErrFull" /\ PushIsFull1(b)
    \/ pres = "ErrFull" /\ PushIsFull1(buf)
    \/ PushIsFull2
    \/ PushSkip
    \/ PushMeta
    \/ PushCopy
    \/ PushStore

NextRetry == PushRetry \/ Pop

\* the two goroutines run in parallel: each one keeps taking its steps
SpecRetry == Init /\ [][NextRetry]_vars /\ WF_vars(PushRetry) /\ WF_vars(Pop)

\* ---- one goroutine, any start offset, as TestQueueWriteRandomPos does ----

\* the test builds a queue and sets both cursors to the same offset i
InitPos ==
    /\ \E c \in 0..MaxCap : \E i \in 0..MaxStart :
         /\ cap = c
         /\ readPtr = i
         /\ writePtr = i
         /\ mem = [k \in 0..(c + PadBytes - 1) |-> 0]
    /\ Idle

\* the loop of the test: a whole Push on the drained queue, then whole Pops
NextPos ==
    \/ cpc = "idle" /\ Len(popped) = Len(pushed) /\ Push
    \/ ppc = "idle" /\ Pop

SpecPos == InitPos /\ [][NextPos]_vars

\* ---- IsFull called on its own, as TestQueue_IsFull does ----

\* the test builds a queue and sets the two cursors by hand
InitIsFull ==
    /\ \E c \in (0..MaxFullCap) \cup {TestCap} :
         /\ cap = c
         /\ mem = [i \in 0..(c + PadBytes - 1) |-> 0]
         /\ \E r \in 0..c : \E w \in r..(r + c) : readPtr = r /\ writePtr = w
    /\ Idle

\* q.IsFull(n)
CallIsFull(n) ==
    /\ fullArg = -1
    /\ fullArg' = n
    /\ fullRes' = IF IsFullLogical(writePtr, readPtr, n) THEN "true"
                  ELSE IF cap = 0 THEN "panic"
                  ELSE IF IsFullPlacement(writePtr, readPtr, n) THEN "true"
                  ELSE "false"
    /\ UNCHANGED <<qvars, pvars, cvars, pushed, popped, wide>>

NextIsFull == \E n \in 0..(cap + 1) : CallIsFull(n)

SpecIsFull == InitIsFull /\ [][NextIsFull]_vars

\* ---- properties ----

\* the payloads of a history
Bufs(h) == [i \in 1..Len(h) |-> h[i].buf]

\* s is a prefix of t
IsPrefix(s, t) == Len(s) <= Len(t) /\ \A i \in 1..Len(s) : s[i] = t[i]

\* accepted message i was placed behind a skip header
Skipped(i) == pushed[i].next - pushed[i].at > ElementMetaSize + Len(pushed[i].buf)

\* C1: with one producer and one consumer, in every interleaving, the payloads
\* returned by the successful Pops are a prefix of the payloads accepted by the
\* successful Pushes: same order, same bytes, same lengths.
C1_FifoPrefix == IsPrefix(Bufs(popped), Bufs(pushed))

\* three messages went through, one of them empty, one of them behind a skip header,
\* and the last Pop overlapped a Push
C1_Witness ==
    /\ Len(popped) = 3
    /\ \E i \in 1..3 : popped[i].buf = <<>>
    /\ \E i \in 1..3 : Len(popped[i].buf) = 2
    /\ \E i \in 1..3 : Skipped(i)

\* C2: in every reachable state readPtr <= writePtr and writePtr - readPtr <= capacity.
C2_CursorBounds == readPtr <= writePtr /\ writePtr - readPtr <= cap

\* the queue is logically full right after a Push that inserted a skip header
C2_Witness ==
    /\ cap > 0
    /\ writePtr - readPtr = cap
    /\ ppc = "idle" /\ pres = "ok"
    /\ Len(pushed) > 0
    /\ Skipped(Len(pushed))

\* C3: a failing operation has no effect. When Push returns ErrFull, writePtr and every
\* byte of the region are as they were when it was called, and no step of the failing
\* call (the two checks of IsFull) changes readPtr, writePtr or the region; a Pop that
\* returns ErrEmpty changes neither cursor nor the region.
C3_FailNoEffect ==
    /\ [](ppc = "idle" /\ pres = "ErrFull" => writePtr = pentry[1] /\ mem = pentry[2])
    /\ [][((\E b \in Payloads : PushIsFull1(b)) \/ PushIsFull2)
             => UNCHANGED <<readPtr, writePtr, mem>>]_vars
    /\ [][((\E d \in Dsts : PopIsEmpty(d)) /\ cres' = "ErrEmpty")
             => (readPtr = writePtr /\ UNCHANGED <<readPtr, writePtr, mem>>)]_vars

\* away from offset 0, a Push was refused by the placement check and a Pop found
\* the queue empty
C3_Witness ==
    /\ ppc = "idle" /\ pres = "ErrFull" /\ pushSteps = 2
    /\ cpc = "idle" /\ cres = "ErrEmpty"
    /\ writePtr > 0

\* the condition C4 gives for IsFull(n) to be false
C4_Fits(n) ==
    LET cost == 4 + n
    IN  /\ writePtr + cost - readPtr <= cap
        /\ LET physRead == readPtr % cap
               physWrite == writePtr % cap
           IN  \/ physRead <= physWrite /\ (physWrite + cost <= cap \/ cost <= physRead)
               \/ physWrite < physRead /\ physWrite + cost <= physRead

\* C4: for every capacity, every pair of cursors with 0 <= writePtr - readPtr <= capacity
\* and every payload length n, IsFull(n) is false exactly when the frame of cost 4 + n
\* fits logically and fits either the tail, the head (unwrapped) or the gap (wrapped),
\* and is true otherwise; it changes no state. On a fresh queue of capacity 64,
\* IsFull(60) is false and IsFull(61) is true.
C4_IsFullTable ==
    /\ [](fullArg # -1 =>
            /\ fullRes = (IF C4_Fits(fullArg) THEN "false" ELSE "true")
            /\ (cap = 64 /\ readPtr = 0 /\ writePtr = 0 /\ fullArg = 60 => fullRes = "false")
            /\ (cap = 64 /\ readPtr = 0 /\ writePtr = 0 /\ fullArg = 61 => fullRes = "true"))
    /\ [][(\E n \in 0..(cap + 1) : CallIsFull(n)) => UNCHANGED <<cap, readPtr, writePtr, mem>>]_vars

\* the wrapped case of the test: capacity 64, writePtr 80, readPtr 48, IsFull(28) is false
C4_Witness ==
    /\ cap = 64 /\ writePtr = 80 /\ readPtr = 48
    /\ fullArg = 28 /\ fullRes = "false"
\* C5: when an admitted frame of cost 4 + len(payload) does not fit the tail segment,
\* Push leaves the header -(capacity - pos) at pos = writePtr mod capacity, the real
\* header and the payload from physical position 0 on, and publishes
\* writePtr = old writePtr + (capacity - pos) + cost in one store (the only step that
\* changes writePtr); the Pop that takes this frame returns exactly the payload and
\* leaves readPtr equal to that writePtr.
C5_SkipFrame ==
    /\ [][PushStore =>
            LET p == pos(writePtr)
                cost == ElementMetaSize + Len(buf)
            IN  cap - p < cost =>
                  /\ readMeta(mem, p) = -(cap - p)
                  /\ readMeta(mem, 0) = Len(buf)
                  /\ \A i \in 1..Len(buf) : mem[ElementMetaSize + i - 1] = buf[i]
                  /\ writePtr' = writePtr + (cap - p) + cost]_vars
    /\ [][writePtr' # writePtr => PushStore]_vars
    /\ [](\A i \in 1..Len(popped) :
            Skipped(i) => popped[i].buf = pushed[i].buf /\ popped[i].next = pushed[i].next)
    /\ [](cpc = "idle" /\ cres = "ok" /\ Len(popped) > 0 => readPtr = popped[Len(popped)].next)

\* a 2-byte message placed behind a skip header has just been popped
C5_Witness ==
    /\ cpc = "idle" /\ cres = "ok"
    /\ Len(popped) > 0
    /\ Skipped(Len(popped))
    /\ Len(pushed[Len(popped)].buf) = 2
    /\ dst = dst0 \o pushed[Len(popped)].buf
    /\ readPtr = pushed[Len(popped)].next
\* the producer is submitting buf and has not had it accepted yet
Trying == pres = "running" \/ pres = "ErrFull"

\* C6 as stated: for any payload whose frame fits the capacity, a Push retried after
\* each ErrFull, while the consumer keeps popping, eventually succeeds.
C6_RetryFits ==
    (Trying /\ ElementMetaSize + Len(buf) <= cap) ~> (pres = "ok")

\* C6 as amended: the same for any payload whose frame is at most half the capacity.
C6_RetryHalf ==
    (Trying /\ 2 * (ElementMetaSize + Len(buf)) <= cap) ~> (pres = "ok")

\* a Push that was refused and retried has been accepted
C6_Witness ==
    /\ ppc = "idle" /\ pres = "ok" /\ retried
    /\ 2 * (ElementMetaSize + Len(buf)) <= cap
\* C7: on an empty queue whose cursors are equal at any logical offset, Push of a
\* payload whose frame is at most half the capacity succeeds (it is refused only when
\* 2 * (4 + len) > capacity); the Pop that follows returns exactly that payload, and
\* the queue is empty again.
C7_EmptyHalfPush ==
    /\ (ppc = "idle" /\ pres = "ErrFull" /\ pentry[1] = pentry[3])
          => 2 * (ElementMetaSize + Len(buf)) > cap
    /\ (ppc = "idle" /\ cpc = "idle" /\ cres = "ok" /\ Len(popped) = Len(pushed))
          => /\ readPtr = writePtr
             /\ dst = dst0 \o pushed[Len(pushed)].buf

\* a frame of exactly half the capacity was pushed on an empty queue, at an offset
\* beyond the first lap where it needed a skip header, and popped again
C7_Witness ==
    /\ ppc = "idle" /\ pres = "ok" /\ cpc = "idle" /\ cres = "ok"
    /\ Len(pushed) > 0 /\ Len(popped) = Len(pushed)
    /\ 2 * (ElementMetaSize + Len(buf)) = cap
    /\ Len(buf) > 0
    /\ Skipped(Len(pushed))
    /\ pushed[Len(pushed)].at > cap
    /\ pentry[1] = pentry[3]
    /\ dst = dst0 \o buf
    /\ readPtr = writePtr
\* C8: Push and Pop are non-blocking. A call that has started can always take its next
\* step whatever state the other goroutine is in (stopped in the middle of its own call
\* included), and it returns after at most 6 (Push) or 5 (Pop) steps of its own.
C8_NonBlocking ==
    /\ pushSteps <= 6
    /\ popSteps <= 5
    /\ ppc # "idle" => ENABLED Push
    /\ cpc # "idle" => ENABLED Pop
    /\ ppc = "idle" => pres \in {"none", "ok", "ErrFull"}
    /\ cpc = "idle" => cres \in {"none", "ok", "ErrEmpty"}

\* a Pop ran its 5 steps to the end while the producer stood in the middle of a Push
C8_Witness ==
    /\ cpc = "idle" /\ cres = "ok" /\ popSteps = 5
    /\ ppc \in {"skip", "meta", "copy", "store"}
\* C9: a queue of capacity 0 is always full and always empty: every Push (of any length,
\* 0 included) returns ErrFull at the first check and every Pop returns ErrEmpty, nothing
\* changes and no position is taken modulo 0; any queue of capacity below 4 refuses
\* every Push.
C9_Degenerate ==
    /\ cap < ElementMetaSize =>
          /\ ppc = "idle" /\ pres \in {"none", "ErrFull"}
          /\ pushed = <<>> /\ writePtr = 0
          /\ \A i \in DOMAIN mem : mem[i] = 0
    /\ cap = 0 =>
          /\ cpc = "idle" /\ cres \in {"none", "ErrEmpty"}
          /\ popped = <<>> /\ readPtr = 0

\* on a queue of capacity 0 the empty payload was refused and a Pop found nothing
C9_Witness ==
    /\ cap = 0
    /\ pres = "ErrFull" /\ buf = <<>>
    /\ cres = "ErrEmpty"
Oldest == Len(popped) + 1

\* the physical bytes the consumer reads at its next step: a header (readMeta) or the
\* payload (q.mem[a:b])
ConsumerReads ==
    IF cpc \in {"meta", "meta2"} /\ cap # 0
    THEN {pos(readingPtr) + i : i \in 0..(ElementMetaSize - 1)}
    ELSE IF cpc = "copy" THEN {pos(readingPtr) + i : i \in 0..(meta - 1)}
    ELSE {}

\* the physical bytes of the frame of the Push in progress, written or still to write:
\* the skip header where there is one, the header and the payload
ProducerFrame ==
    IF ppc \notin {"skip", "meta", "copy", "store"} THEN {}
    ELSE LET skipped == ppc = "skip" \/ pWritePtr # writePtr
             start == IF ppc = "skip" THEN 0 ELSE pos(pWritePtr)
         IN  {start + i : i \in 0..(ElementMetaSize + Len(buf) - 1)}
             \cup (IF skipped
                   THEN {pos(writePtr) + i : i \in 0..(ElementMetaSize - 1)}
                   ELSE {})

\* C11: publication ordering. A Pop that observes readPtr # writePtr finds the oldest
\* unreleased message already published below the writePtr it observed; each header it
\* then reads is the skip header or the real header of that message as the producer
\* wrote it, the payload bytes it copies are that message's payload, and none of the
\* bytes it reads belongs to the frame of a Push that has not stored writePtr yet.
C11_PublishedBeforeRead ==
    /\ [][((\E d \in Dsts : PopIsEmpty(d)) /\ cres' = "running")
            => /\ Len(pushed) >= Oldest
               /\ pushed[Oldest].at = readPtr
               /\ pushed[Oldest].next <= writePtr]_vars
    /\ [](cpc \in {"meta", "meta2", "copy"} =>
            /\ Len(pushed) >= Oldest
            /\ pushed[Oldest].next <= writePtr
            /\ ConsumerReads \cap ProducerFrame = {})
    /\ [](cpc = "meta" =>
            /\ readingPtr = pushed[Oldest].at
            /\ readMeta(mem, pos(readingPtr)) =
                 (IF Skipped(Oldest) THEN -(cap - pos(readingPtr))
                  ELSE Len(pushed[Oldest].buf)))
    /\ [](cpc = "meta2" =>
            /\ Skipped(Oldest)
            /\ readingPtr + ElementMetaSize + Len(pushed[Oldest].buf) = pushed[Oldest].next
            /\ readMeta(mem, pos(readingPtr)) = Len(pushed[Oldest].buf))
    /\ [](cpc = "copy" =>
            /\ meta = Len(pushed[Oldest].buf)
            /\ readingPtr + meta = pushed[Oldest].next
            /\ \A i \in 1..meta : mem[pos(readingPtr) + i - 1] = pushed[Oldest].buf[i])

\* the consumer is about to copy a payload while the producer, past the skip header it
\* stored across the end of the region, has written the header of the next frame and
\* not yet its payload
C11_Witness ==
    /\ cpc = "copy"
    /\ ppc = "copy" /\ Len(buf) > 0
    /\ pWritePtr # writePtr
    /\ pos(writePtr) + ElementMetaSize > cap
    /\ ProducerFrame # {}

\* the physical bytes held by accepted message k: its header and payload and, where it
\* was placed behind a skip header, the 4 bytes of that header and the tail it skips
FrameBytes(k) ==
    LET cost == ElementMetaSize + Len(pushed[k].buf)
        p == pos(pushed[k].at)
    IN  IF Skipped(k)
        THEN {i \in 0..(MemCap - 1) : i >= p /\ (i < cap \/ i < p + ElementMetaSize)}
             \cup {i : i \in 0..(cost - 1)}
        ELSE {p + i : i \in 0..(cost - 1)}

\* the physical bytes of the messages published and not yet released by a readPtr store
Unreleased == UNION {FrameBytes(k) : k \in Oldest..Len(pushed)}

\* C12: no overwrite of unconsumed data. In every interleaving, all the bytes of the
\* frame of an admitted Push (skip header with its overflow into the pad bytes, real
\* header, payload) lie outside the bytes of every message published and not yet
\* released by the consumer's readPtr store, and no step changes such a byte.
C12_NoOverwrite ==
    /\ [](ProducerFrame \cap Unreleased = {})
    /\ [][\A i \in Unreleased : mem'[i] = mem[i]]_vars

\* the producer is about to store a skip header that spills into the pad bytes, while
\* an older message is still unreleased and the consumer stands in the middle of its Pop
C12_Witness ==
    /\ ppc = "skip"
    /\ pos(pWritePtr) + ElementMetaSize > cap
    /\ Len(pushed) >= Oldest
    /\ cpc = "copy"
    /\ Unreleased # {}

\* C13: the double-skip panic is unreachable with one producer and one consumer. Pop
\* never panics; the header it reads at readPtr is non-negative or a skip of magnitude
\* capacity - (readPtr mod capacity); the header it reads after a skip is at physical
\* position 0 and non-negative. Every store of writePtr publishes a frame that begins
\* with a non-negative header, or with a skip header followed at position 0 by a
\* non-negative header whose payload the new writePtr covers: a skip is never published
\* alone and never followed by a skip.
C13_NoDoubleSkip ==
    /\ [](cres # "panic")
    /\ [](cpc = "meta" =>
            /\ readingPtr = readPtr
            /\ LET m == readMeta(mem, pos(readPtr))
               IN  m >= 0 \/ -m = cap - pos(readPtr))
    /\ [](cpc = "meta2" =>
            /\ meta < 0
            /\ pos(readingPtr) = 0
            /\ readMeta(mem, pos(readingPtr)) >= 0)
    /\ [][writePtr' # writePtr =>
            LET p == pos(writePtr)
                m == readMeta(mem', p)
            IN  \/ m >= 0 /\ writePtr' = writePtr + ElementMetaSize + m
                \/ /\ m = -(cap - p)
                   /\ readMeta(mem', 0) >= 0
                   /\ writePtr' = writePtr + (cap - p) + ElementMetaSize + readMeta(mem', 0)]_vars

\* Pop has read a skip header that began in the last 3 bytes of the region and stands at
\* position 0 before the header of the message
C13_Witness ==
    /\ cpc = "meta2"
    /\ meta < 0 /\ -meta < ElementMetaSize
    /\ pos(readingPtr) = 0
    /\ readMeta(mem, 0) = Len(pushed[Oldest].buf)

\* the 3 spare bytes behind the region
Pad == cap..(MemCap - 1)

\* C14: memory bounds. No access panics. Every header access of Push and Pop starts at
\* a position below the capacity and ends within the capacity + 3 allocated bytes; a
\* header that reaches into the 3 pad bytes is a skip header, and only the store of a
\* skip header changes a pad byte; every real frame, while written, while published and
\* while read, lies within [0, capacity) in one piece.
C14_MemoryBounds ==
    /\ [](NoPanic)
    /\ [](ppc \in {"skip", "meta"} =>
            /\ pos(pWritePtr) < cap
            /\ pos(pWritePtr) + ElementMetaSize <= MemCap)
    /\ [](ppc \in {"meta", "copy", "store"} =>
            pos(pWritePtr) + ElementMetaSize + Len(buf) <= cap)
    /\ [](cpc \in {"meta", "meta2"} =>
            /\ pos(readingPtr) < cap
            /\ pos(readingPtr) + ElementMetaSize <= MemCap
            /\ (pos(readingPtr) + ElementMetaSize > cap
                  => cpc = "meta" /\ readMeta(mem, pos(readingPtr)) < 0))
    /\ [](cpc = "copy" => meta >= 0 /\ pos(readingPtr) + meta <= cap)
    /\ [](\A k \in Oldest..Len(pushed) :
            LET start == IF Skipped(k) THEN 0 ELSE pos(pushed[k].at)
            IN  start + ElementMetaSize + Len(pushed[k].buf) <= cap)
    /\ [](ProducerFrame \cup ConsumerReads \subseteq 0..(MemCap - 1))
    /\ [][(\E i \in Pad : mem'[i] # mem[i]) => PushSkip]_vars

\* after a skip header has reached into the pad bytes, the producer copies a payload
\* whose frame ends exactly at the end of the region
C14_Witness ==
    /\ ppc = "copy" /\ Len(buf) > 0
    /\ pos(pWritePtr) + ElementMetaSize + Len(buf) = cap
    /\ mem[cap] = 255

\* C15: single-writer ownership. No step of Push changes readPtr, and writePtr only
\* grows, by at least 4 in the store of a successful Push; no step of Pop changes
\* writePtr or a byte of the region, and readPtr only grows, by at least 4 in the store
\* of a successful Pop; the steps of IsFull and IsEmpty change neither cursor nor the
\* region. Both cursors never decrease: they are logical offsets that run past the
\* capacity, never reduced modulo it.
C15_SingleWriter ==
    /\ [][Push => readPtr' = readPtr /\ writePtr' >= writePtr]_vars
    /\ [][PushStore => writePtr' >= writePtr + ElementMetaSize]_vars
    /\ [][Pop => writePtr' = writePtr /\ mem' = mem /\ readPtr' >= readPtr]_vars
    /\ [][PopStore => readPtr' >= readPtr + ElementMetaSize]_vars
    /\ [][((\E b \in Payloads : PushIsFull1(b)) \/ PushIsFull2 \/ (\E d \in Dsts : PopIsEmpty(d)))
            => UNCHANGED <<cap, readPtr, writePtr, mem>>]_vars
    /\ [][readPtr' >= readPtr /\ writePtr' >= writePtr /\ cap' = cap]_vars
    /\ [](ppc = "idle" => writePtr = (IF pushed = <<>> THEN 0 ELSE pushed[Len(pushed)].next))
    /\ [](cpc = "idle" => readPtr = (IF popped = <<>> THEN 0 ELSE popped[Len(popped)].next))

\* after a successful Push and a successful Pop both cursors stand beyond the capacity
C15_Witness ==
    /\ ppc = "idle" /\ pres = "ok"
    /\ cpc = "idle" /\ cres = "ok"
    /\ readPtr > cap
    /\ writePtr > readPtr

\* C16: emptiness is exact. In every state, and so between operations, readPtr equals
\* writePtr exactly when as many Pops as Pushes have succeeded: skip padding never
\* leaves the cursors apart with no message pending. Pop returns ErrEmpty only when
\* every published message has been consumed, and goes on to read only when one is
\* pending.
C16_EmptinessExact ==
    /\ []((readPtr = writePtr) <=> (Len(popped) = Len(pushed)))
    /\ [](IsEmpty <=> (Len(popped) = Len(pushed)))
    /\ [](Len(popped) <= Len(pushed))
    /\ [][(\E d \in Dsts : PopIsEmpty(d)) =>
            /\ (cres' = "ErrEmpty") <=> (Len(popped) = Len(pushed))
            /\ (cres' = "running") <=> (Len(popped) < Len(pushed))]_vars

\* both goroutines are between operations, two messages went through, the second one
\* behind a skip header, and the Pop that followed reported ErrEmpty with the cursors
\* equal beyond the capacity
C16_Witness ==
    /\ ppc = "idle" /\ cpc = "idle"
    /\ Len(pushed) = 2 /\ Len(popped) = 2
    /\ Skipped(2)
    /\ cres = "ErrEmpty"
    /\ readPtr = writePtr /\ readPtr > cap

\* every payload the producer submits has a frame of at most half the capacity
HalfFrames == Trying => 2 * (ElementMetaSize + Len(buf)) <= cap

\* the stream of MaxMsgs messages has gone through: all pushed, all popped
StreamDone == Len(pushed) = MaxMsgs /\ Len(popped) = MaxMsgs

\* C17: progress of the stress scenario. The producer retries Push on ErrFull, the
\* consumer retries Pop on ErrEmpty, both are scheduled fairly: if every payload's frame
\* is at most half the capacity, all the messages of the stream are eventually pushed
\* and popped, and both loops are through.
C17_StressProgress == ([]HalfFrames) => <>StreamDone

\* the whole stream went through with frames of at most half the capacity; the last
\* Push was refused, retried, and accepted behind a skip header
C17_Witness ==
    /\ StreamDone
    /\ \A k \in 1..MaxMsgs : 2 * (ElementMetaSize + Len(pushed[k].buf)) <= cap
    /\ retried
    /\ Skipped(MaxMsgs)

\* ---- the cursor loads as the code has them: plain loads ----

\* IsEmpty (line 51) and IsFull (lines 63, 69) load the cursors with plain reads, while
\* the cursors are stored with atomic.StoreUint64 (lines 131, 169). A plain load of
\* writePtr orders nothing: the loads of the region that follow it in Pop may be
\* satisfied before it, with the bytes the region held before the producer wrote the
\* frame that the cursor publishes. The region before the writes of the latest Push is
\* pentry[2].
PlainView == {mem, pentry[2]}

\* Pop lines 144-150 and 160-161, the header load not ordered after the load of writePtr
PopReadMetaPlain ==
    /\ NoPanic
    /\ cpc = "meta"
    /\ popSteps' = popSteps + 1
    /\ IF cap = 0 \/ pos(readingPtr) >= MemLen
       THEN /\ cpc' = "idle"
            /\ cres' = "panic"
            /\ UNCHANGED <<meta, readingPtr>>
       ELSE \E v \in PlainView :
            LET m == readMeta(v, pos(readingPtr))
            IN  /\ meta' = m
                /\ cres' = "running"
                /\ IF m < 0
                   THEN /\ readingPtr' = readingPtr + (-m)
                        /\ cpc' = "meta2"
                   ELSE /\ readingPtr' = readingPtr + ElementMetaSize
                        /\ cpc' = "copy"
    /\ UNCHANGED <<qvars, pvars, dst, dst0, pushed, popped, fvars>>

\* Pop lines 155-161, the same for the header behind a skip
PopReadMeta2Plain ==
    /\ NoPanic
    /\ cpc = "meta2"
    /\ popSteps' = popSteps + 1
    /\ IF pos(readingPtr) >= MemLen
       THEN /\ cpc' = "idle"
            /\ cres' = "panic"
            /\ UNCHANGED <<meta, readingPtr>>
       ELSE \E v \in PlainView :
            LET m == readMeta(v, pos(readingPtr))
            IN  /\ meta' = m
                /\ IF m < 0
                   THEN /\ cpc' = "idle"
                        /\ cres' = "panic"
                        /\ UNCHANGED readingPtr
                   ELSE /\ readingPtr' = readingPtr + ElementMetaSize
                        /\ cpc' = "copy"
                        /\ cres' = "running"
    /\ UNCHANGED <<qvars, pvars, dst, dst0, pushed, popped, fvars>>

\* Pop line 164, the same for the payload
PopCopyPlain ==
    /\ NoPanic
    /\ cpc = "copy"
    /\ popSteps' = popSteps + 1
    /\ LET a == pos(readingPtr)
           b == pos(readingPtr) + meta
       IN  IF b > MemCap
           THEN /\ cpc' = "idle"
                /\ cres' = "panic"
                /\ UNCHANGED dst
           ELSE \E v \in PlainView :
                /\ dst' = dst \o [i \in 1..(b - a) |-> v[a + i - 1]]
                /\ cpc' = "store"
                /\ cres' = "running"
    /\ UNCHANGED <<qvars, pvars, dst0, readingPtr, meta, pushed, popped, fvars>>

\* the consumer loop of the contention test pops as many messages as the stream holds
PopPlain == \/ \E d \in Dsts : Len(popped) < MaxMsgs /\ PopIsEmpty(d)
            \/ PopReadMetaPlain
            \/ PopReadMeta2Plain
            \/ PopCopyPlain
            \/ PopStore

NextPlain == Push \/ PopPlain

SpecPlain == Init /\ [][NextPlain]_vars

\* C18: both cursor hand-offs are release-store / acquire-load. With an acquire load of
\* writePtr in the emptiness check, the region loads that follow it in Pop cannot be
\* satisfied before it: the header Pop holds is the length of the oldest published
\* message, and the bytes it has copied are that message's payload.
C18_AcquireLoads ==
    /\ cpc = "copy" => Len(pushed) >= Oldest /\ meta = Len(pushed[Oldest].buf)
    /\ cpc = "store" => Len(pushed) >= Oldest /\ dst = dst0 \o pushed[Oldest].buf

\* ---- Push on a queue of 2^31 bytes and more ----

\* the uint64 quantities of this scenario exceed the integers TLC computes with: a
\* quantity x is held as <<x \div 2^16, x % 2^16>>
MaxWideLo == 3

Limb == 2 ^ 16

W0 == <<0, 0>>
W4 == <<0, ElementMetaSize>>

WAdd(x, y) == <<x[1] + y[1] + ((x[2] + y[2]) \div Limb), (x[2] + y[2]) % Limb>>

\* x - y, for y <= x
WSub(x, y) ==
    IF x[2] >= y[2] THEN <<x[1] - y[1], x[2] - y[2]>>
    ELSE <<x[1] - y[1] - 1, x[2] + Limb - y[2]>>

WLess(x, y) == x[1] < y[1] \/ (x[1] = y[1] /\ x[2] < y[2])

WLeq(x, y) == x = y \/ WLess(x, y)

\* the quantity of a non-negative int32
WFromInt(m) == <<m \div Limb, m % Limb>>

\* the conversion int32(x) of Push lines 114 and 125: the low 32 bits, two's complement
Int32(x) ==
    LET h == x[1] % Limb
    IN  IF h >= Limb \div 2 THEN (h - Limb) * Limb + x[2] ELSE h * Limb + x[2]

\* -v on int32: the lowest value is its own negative
Neg32(v) == IF v = -2147483647 - 1 THEN v ELSE -v

\* uint64(skip) added to a cursor (line 120): a negative skip moves it back
WAddInt32(x, v) ==
    IF v >= 0 THEN WAdd(x, WFromInt(v))
    ELSE WSub(WSub(x, WFromInt(-(v + 1))), <<0, 1>>)

\* capacities, offsets and lengths around 0, 2^31 and 2^32
WideNums ==
    {<<h, l>> : h \in {0, Limb \div 2 - 1, Limb \div 2, Limb - 1, Limb},
                l \in (0..MaxWideLo) \cup ((Limb - 1 - MaxWideLo)..(Limb - 1))}

\* NewQueue(c), both cursors at offset i below the capacity (pos(i) = i), then Push of a
\* payload of n bytes: IsFull lines 63-84, Push lines 108-131. The record keeps the
\* headers Push stores and where it stores the real one.
PushWide(c, i, n) ==
    /\ wide = <<>>
    /\ WLess(i, c)
    /\ i = W0 \/ WLeq(W4, i)
    /\ LET cost == WAdd(n, W4)
           full == IF WLess(c, cost) THEN TRUE
                   ELSE IF WLeq(WAdd(i, cost), c) THEN FALSE
                   ELSE IF WLeq(cost, i) THEN FALSE
                   ELSE TRUE
           tail == WSub(c, i)
           skipped == WLess(tail, cost)
           skip == Int32(tail)
           wp == IF skipped THEN WAddInt32(i, skip) ELSE i
       IN  wide' = IF full
                   THEN [res |-> "ErrFull", cap |-> c, at |-> i, len |-> n]
                   ELSE [res |-> "ok", cap |-> c, at |-> i, len |-> n,
                         skipped |-> skipped,
                         skipMeta |-> IF skipped THEN Neg32(skip) ELSE 0,
                         metaAt |-> IF WLess(wp, c) THEN wp ELSE WSub(wp, c),
                         meta |-> Int32(n),
                         next |-> WAdd(wp, cost)]
    /\ UNCHANGED <<qvars, pvars, cvars, pushed, popped, fullArg, fullRes>>

NextWide ==
    /\ wide = <<>>
    /\ \E c \in WideNums : \E i \in WideNums : \E n \in WideNums : PushWide(c, i, n)

\* only wide is used: the queue of the other scenarios stays as built with capacity 0
InitWide == NewQueue(0) /\ Idle

SpecWide == InitWide /\ [][NextWide]_vars

\* C19: no silent truncation of the length field. An admitted Push stores as header
\* the payload length, a non-negative int32, at the frame's position, and as skip header
\* exactly -(capacity - pos); a payload length that does not fit the positive int32
\* range is refused.
C19_NoTruncation ==
    /\ (wide # <<>> /\ wide.res = "ok") =>
          /\ wide.meta >= 0
          /\ WFromInt(wide.meta) = wide.len
          /\ wide.skipped =>
                /\ wide.skipMeta < 0
                /\ WFromInt(-(wide.skipMeta + 1)) = WSub(WSub(wide.cap, wide.at), <<0, 1>>)
                /\ wide.metaAt = W0
    /\ (wide # <<>> /\ WLeq(<<Limb \div 2, 0>>, wide.len)) => wide.res = "ErrFull"
====
